---- MODULE Spec2Model ----
(***************************************************************************)
(* A model of tsviz (src/tsviz/cli.py): the time-column detection, the     *)
(* data preparation, the chart construction and the command line entry     *)
(* point.                                                                  *)
(*                                                                         *)
(* A table (pandas DataFrame) is a record                                  *)
(*     [cols |-> sequence of columns, nrows |-> row count, index |-> kind] *)
(* and a column is [name, dtype, vals].  dtype is one of "datetime",       *)
(* "number" (int64/float64), "bool", "object".  A value is [k, v]: k is    *)
(* its kind ("ts" a timestamp, "date" a string holding a date, "text" a    *)
(* string that is no date, "num" a number, "bool", "day" a day name,       *)
(* "null" NaN/NaT/None) and v its payload.  A timestamp's payload is the   *)
(* number of whole hours since 2027-01-01T00:00:00.                        *)
(***************************************************************************)
EXTENDS Integers, Sequences, FiniteSets, TLC

VARIABLES
  pc,          \* where the run stands
  file,        \* the input file: whether the path exists, its suffix, its content
  columns,     \* the names given with -c (<<>>: none)
  output,      \* the path given with -o, or NoneStr
  title,       \* the title given with -t, or NoneStr
  args,        \* the arguments of a direct call of a function
  df,          \* the table
  time_col,    \* the time column's name
  value_cols,  \* the value columns' names
  err,         \* the exception raised
  fig,         \* the chart
  stderr,      \* what was printed on standard error
  exit_code    \* the exit status, -1 while running

vars == <<pc, file, columns, output, title, args, df, time_col, value_cols, err,
          fig, stderr, exit_code>>

(* ------------------------------ bounds -------------------------------- *)
\* The columns and rows of a table given to detect_time_column or loaded by
\* a call of prepare_data without explicit columns.
MaxCols == 3
MaxRows == 2
\* The columns and rows of a file loaded with explicit columns, and the
\* number of names given with -c.
ReqCols == 2
ReqRows == 2
MaxReq == 2
\* The number of series given to create_plot.
MaxSeries == 6

(* ------------------------------ values -------------------------------- *)
\* Python's None where the model needs a string.
NoneStr == "<None>"

Val(k, v) == [k |-> k, v |-> v]
Null == Val("null", 0)
IsNull(x) == x.k = "null"

\* 1970-01-01T00:00:00, pandas' origin for numbers, in hours since
\* 2027-01-01T00:00:00: 57 years, 14 of them leap years.
EpochHour == 0 - ((57 * 365 + 14) * 24)

\* The index of the first TRUE of a sequence of booleans, 0 when there is
\* none: where a scan that stops at its first hit stops.
FirstIndex(flags) ==
  LET hits == {i \in 1..Len(flags) : flags[i]}
  IN  IF hits = {} THEN 0 ELSE CHOOSE i \in hits : \A j \in hits : i <= j

(* ------------------------------ tables -------------------------------- *)
Column(name, dtype, vals) == [name |-> name, dtype |-> dtype, vals |-> vals]

HasColumn(t, name) == \E i \in 1..Len(t.cols) : t.cols[i].name = name

\* df[name]
GetColumn(t, name) ==
  t.cols[CHOOSE i \in 1..Len(t.cols) : t.cols[i].name = name]

\* df[name] = vals: replaces the column in place when the name exists,
\* appends it otherwise.
SetColumn(t, name, dtype, vals) ==
  IF HasColumn(t, name)
  THEN [t EXCEPT !.cols =
          [i \in 1..Len(t.cols) |->
             IF t.cols[i].name = name THEN Column(name, dtype, vals)
             ELSE t.cols[i]]]
  ELSE [t EXCEPT !.cols = Append(t.cols, Column(name, dtype, vals))]

\* pd.api.types.is_numeric_dtype: integers, floats and booleans.
IsNumericDtype(c) == c.dtype \in {"number", "bool"}

(* --------------------------- pd.to_datetime --------------------------- *)
\* Whether one value converts: strings must hold a date, numbers are read as
\* nanoseconds since the epoch, nulls become NaT, booleans are refused.
Convertible(x) == x.k \in {"ts", "date", "num", "null"}

ToDatetimeVal(x) ==
  CASE x.k = "ts" -> x
    [] x.k = "date" -> Val("ts", x.v)
    [] x.k = "num" -> Val("ts", EpochHour)
    [] OTHER -> Null

\* pd.to_datetime(column, errors='raise'): the whole column converts or the
\* call raises (ValueError for a string that is no date, TypeError for
\* booleans).
ToDatetime(c) ==
  LET bad == FirstIndex([i \in 1..Len(c.vals) |-> ~Convertible(c.vals[i])])
  IN  IF c.dtype = "bool" THEN [ok |-> FALSE, exc |-> "TypeError", vals |-> <<>>]
      ELSE IF bad # 0
      THEN [ok |-> FALSE,
            exc |-> IF c.vals[bad].k = "bool" THEN "TypeError" ELSE "ValueError",
            vals |-> <<>>]
      ELSE [ok |-> TRUE, exc |-> NoneStr,
            vals |-> [i \in 1..Len(c.vals) |-> ToDatetimeVal(c.vals[i])]]

(* ------------------------ detect_time_column -------------------------- *)
\* df.select_dtypes(include=['datetime64']).columns.tolist()
DatetimeCols(t) == SelectSeq(t.cols, LAMBDA c : c.dtype = "datetime")

\* ParsesAsTime gone wrong: a best-effort look at the first value only.
ParsesFirstValue(c) == c.dtype # "bool" /\ (c.vals = <<>> \/ Convertible(c.vals[1]))

\* One step of the scan of lines 34-39: the conversion of the column is
\* tried, and a ValueError or TypeError moves the scan to the next column.
ParsesAsTime(c) == ToDatetime(c).ok

detect_time_column(t) ==
  LET dt == DatetimeCols(t)
      hit == FirstIndex([i \in 1..Len(t.cols) |-> ParsesAsTime(t.cols[i])])
  IN  IF dt # <<>> THEN dt[1].name
      ELSE IF hit # 0 THEN t.cols[hit].name
      ELSE NoneStr

(* ------------------------- the files on disk -------------------------- *)
DateCell == Val("date", 24)
TextCell == Val("text", 0)
NumCell == Val("num", 7)
BoolCell == Val("bool", 1)
TsCell == Val("ts", 48)

\* The columns read_csv / read_excel can produce from r rows of cells, by
\* the type they infer: numbers with empty cells (an empty column is all
\* NaN), booleans, strings, and, from Excel only, date cells.  With no rows
\* every column is an empty object column.
LoadedShapes(r, suffix) ==
  IF r = 0 THEN {[dtype |-> "object", vals |-> <<>>]}
  ELSE [dtype : {"number"}, vals : [1..r -> {NumCell, Null}]]
       \cup [dtype : {"bool"}, vals : [1..r -> {BoolCell}]]
       \cup [dtype : {"object"}, vals : [1..r -> {DateCell, TextCell}]]
       \cup (IF suffix = ".csv" THEN {}
             ELSE [dtype : {"datetime"}, vals : [1..r -> {TsCell}]])

\* Header names by position; the first header may also read "datetime".
PosNames == <<"a", "b", "c", "d">>
HeaderName(i, first) == IF i = 1 THEN first ELSE PosNames[i]

FirstHeaders == {"a", "datetime"}

\* The table of r rows whose columns have the shapes sh, under the headers
\* that start with first: what the loaders return has a default RangeIndex
\* and distinct headers.
Table(sh, r, first) ==
  [cols |-> [i \in 1..Len(sh) |->
               Column(HeaderName(i, first), sh[i].dtype, sh[i].vals)],
   nrows |-> r, index |-> "range"]

\* One small sheet, for the suffixes that only differ in spelling.
SampleTable ==
  [cols |-> <<Column("a", "object", <<DateCell>>),
              Column("b", "number", <<NumCell>>)>>,
   nrows |-> 1, index |-> "range"]

File(exists, suffix, table) ==
  [exists |-> exists, suffix |-> suffix, table |-> table]

\* The files whose table does not matter, or matters as SampleTable does: a
\* path that does not exist, an unsupported suffix, other spellings.
OtherFiles ==
  {File(TRUE, sfx, SampleTable) : sfx \in {".CSV", ".xls", ".XLSX", ".txt"}}
  \cup {File(FALSE, ".csv", SampleTable)}

\* str.lower() on the suffixes of the model.
Lower(sfx) ==
  CASE sfx = ".CSV" -> ".csv"
    [] sfx = ".XLSX" -> ".xlsx"
    [] OTHER -> sfx

\* pd.read_csv(path, header=None, names=['value']) of a one-column file: the
\* header line becomes the first data row, a string like the cells below it.
ReadHeaderless(t) ==
  [cols |-> <<Column("value", "object", <<TextCell>> \o t.cols[1].vals)>>,
   nrows |-> t.nrows + 1, index |-> "range"]

(* ---------------------------- prepare_data ---------------------------- *)
Error(kind, names) == [kind |-> kind, names |-> names]
NoError == Error("none", <<>>)

Failure(e) ==
  [ok |-> FALSE, err |-> e,
   df |-> [cols |-> <<>>, nrows |-> 0, index |-> "range"],
   time_col |-> NoneStr, value_cols |-> <<>>]

AllNull(c) == \A i \in 1..Len(c.vals) : IsNull(c.vals[i])

\* df.dropna(axis=1, how='all')
DropNa(t) == [t EXCEPT !.cols = SelectSeq(t.cols, LAMBDA c : ~AllNull(c))]

\* df.reset_index(): the index becomes the first column.
ResetIndex(t) ==
  [cols |-> <<Column("index", "datetime", [i \in 1..t.nrows |-> Val("ts", 0)])>>
            \o t.cols,
   nrows |-> t.nrows, index |-> "range"]

\* pd.date_range('2027-01-01', periods=n, freq='H')
DateRange(n) == [i \in 1..n |-> Val("ts", i - 1)]

\* Lines 61-66: detection, and the headerless re-read of a one-column CSV.
Detected(t, suffix) ==
  LET tc == detect_time_column(t)
  IN  IF tc = NoneStr /\ suffix = ".csv" /\ Len(t.cols) = 1
         /\ ~IsNumericDtype(t.cols[1])
      THEN LET again == ReadHeaderless(t)
           IN  [df |-> again, time_col |-> detect_time_column(again)]
      ELSE [df |-> t, time_col |-> tc]

\* Lines 68-79: no time column was detected.
FallBack(d) ==
  LET numeric_cols == SelectSeq(d.df.cols, IsNumericDtype)
  IN  IF d.time_col # NoneStr THEN [ok |-> TRUE, df |-> d.df, time_col |-> d.time_col]
      ELSE IF d.df.index = "datetime"
      THEN [ok |-> TRUE, df |-> ResetIndex(d.df), time_col |-> "index"]
      ELSE IF Len(numeric_cols) = 1
      THEN [ok |-> TRUE,
            df |-> SetColumn(d.df, "datetime", "datetime", DateRange(d.df.nrows)),
            time_col |-> "datetime"]
      ELSE [ok |-> FALSE, df |-> d.df, time_col |-> NoneStr]

\* MissingCols gone wrong: only the first absent name is reported.
MissingColsFirst(t, cols) ==
  LET absent == SelectSeq(cols, LAMBDA c : ~HasColumn(t, c))
  IN  IF absent = <<>> THEN <<>> ELSE <<absent[1]>>

\* AutoValueCols gone wrong: the filter on the numeric type is lost.
AutoValueColsAnyType(t, tc) ==
  LET others == SelectSeq(t.cols, LAMBDA c : c.name # tc)
  IN  [i \in 1..Len(others) |-> others[i].name]

\* Lines 85-92: the value columns, from the caller's list or by type.
MissingCols(t, cols) == SelectSeq(cols, LAMBDA c : ~HasColumn(t, c))

AutoValueCols(t, tc) ==
  LET others == SelectSeq(t.cols, LAMBDA c : c.name # tc)
      numeric == SelectSeq(others, IsNumericDtype)
  IN  [i \in 1..Len(numeric) |-> numeric[i].name]

\* Lines 81-97, from the table and its time column on.
Resolve(t0, tc, cols) ==
  LET conv == ToDatetime(GetColumn(t0, tc))
      t1 == SetColumn(t0, tc, "datetime", conv.vals)
      t2 == DropNa(t1)
      given == cols # <<>>
      missing_cols == MissingCols(t2, cols)
      vc == IF given THEN cols ELSE AutoValueCols(t2, tc)
  IN  IF ~conv.ok THEN Failure(Error("TimeParseError", <<>>))
      ELSE IF given /\ missing_cols # <<>>
      THEN Failure(Error("MissingColumns", missing_cols))
      ELSE IF vc = <<>> THEN Failure(Error("NoNumericColumns", <<>>))
      ELSE [ok |-> TRUE, err |-> NoError, df |-> t2, time_col |-> tc,
            value_cols |-> vc]

\* prepare_data(file_path, columns); cols = <<>> stands for None (and for
\* the empty list, which the code treats alike).
prepare_data(f, cols) ==
  LET sfx == Lower(f.suffix)
      fb == FallBack(Detected(f.table, sfx))
  IN  IF ~f.exists THEN Failure(Error("FileNotFound", <<>>))
      ELSE IF sfx \notin {".csv", ".xlsx", ".xls"}
      THEN Failure(Error("UnsupportedFormat", <<>>))
      ELSE IF ~fb.ok THEN Failure(Error("NoTimeColumn", <<>>))
      ELSE Resolve(fb.df, fb.time_col, cols)

(* ----------------------------- create_plot ---------------------------- *)
PALETTE_COLORS == <<"#5A6876", "#BBA178", "#BACCCC", "#8C9785", "#DBE0D7">>

\* Series.dt.day_name(): Monday is 0; 2027-01-01 is a Friday; NaT gives NaN.
DayName(x) ==
  IF IsNull(x) THEN Null ELSE Val("day", ((x.v \div 24) + 4) % 7)

NoCustom == <<Val("none", 0)>>

NoFig == [traces |-> <<>>, title |-> NoneStr]

\* SeriesColor gone wrong: the palette does not wrap around.
SeriesColorNoWrap(idx) ==
  PALETTE_COLORS[IF idx < Len(PALETTE_COLORS) THEN idx + 1 ELSE Len(PALETTE_COLORS)]

\* The color of the series at 0-based position idx (line 107).
SeriesColor(idx) == PALETTE_COLORS[(idx % Len(PALETTE_COLORS)) + 1]

\* The hover template of lines 109-119, as its parts.
HoverTemplate(col, has_year) ==
  <<col, "Date">> \o (IF has_year THEN <<"Day">> ELSE <<>>) \o <<"Value">>

\* The table after the body of the loop has run for one series (line 113).
WithDayOfWeek(t, tc, has_year) ==
  IF has_year
  THEN LET x == GetColumn(t, tc).vals
       IN  SetColumn(t, "_day_of_week", "object",
                     [i \in 1..Len(x) |-> DayName(x[i])])
  ELSE t

\* go.Scatter(...) of lines 121-129.
Scatter(t, tc, col, idx, has_year) ==
  [name |-> col,
   x |-> GetColumn(t, tc).vals,
   y |-> GetColumn(t, col).vals,
   customdata |-> IF has_year THEN GetColumn(t, "_day_of_week").vals ELSE NoCustom,
   hovertemplate |-> HoverTemplate(col, has_year),
   color |-> SeriesColor(idx)]

\* The loop of lines 106-129.  Its body assigns the same _day_of_week column
\* at every pass, so the table after any number (>= 1) of passes is the table
\* after one; the series of the pass at 0-based position idx is built from
\* it.  A value column that is not in the table raises KeyError at line 123,
\* in the first pass that meets one.
PlotLoop(t, tc, vcs, has_year) ==
  LET t1 == IF vcs = <<>> THEN t ELSE WithDayOfWeek(t, tc, has_year)
      absent == FirstIndex([i \in 1..Len(vcs) |-> ~HasColumn(t1, vcs[i])])
  IN  IF absent # 0
      THEN [ok |-> FALSE, exc |-> "KeyError", df |-> t1, traces |-> <<>>]
      ELSE [ok |-> TRUE, exc |-> NoneStr, df |-> t1,
            traces |-> [i \in 1..Len(vcs) |->
                          Scatter(t1, tc, vcs[i], i - 1, has_year)]]

\* create_plot(df, time_col, value_cols): the figure, and the caller's table
\* as the call leaves it.
create_plot(t, tc, vcs) ==
  IF ~HasColumn(t, tc)
  THEN [ok |-> FALSE, exc |-> "KeyError", df |-> t, fig |-> NoFig]
  ELSE IF GetColumn(t, tc).dtype # "datetime"
  THEN [ok |-> FALSE, exc |-> "AttributeError", df |-> t, fig |-> NoFig]
  ELSE LET x == GetColumn(t, tc).vals
           has_year == \E i \in 1..Len(x) : ~IsNull(x[i])
           loop == PlotLoop(t, tc, vcs, has_year)
       IN  IF ~loop.ok
           THEN [ok |-> FALSE, exc |-> loop.exc, df |-> loop.df, fig |-> NoFig]
           ELSE [ok |-> TRUE, exc |-> NoneStr, df |-> loop.df,
                 fig |-> [traces |-> loop.traces,
                          title |-> "Time Series Visualization"]]

(* ------------------------- the inputs drawn --------------------------- *)
\* The sequences without repetition of at most n elements of S.
SeqsUpTo(S, n) ==
  UNION {{q \in [1..k -> S] : \A i, j \in 1..k : q[i] = q[j] => i = j} : k \in 0..n}

\* The names a caller asks for with -c: headers, and names of no column.
ReqNames == {"a", "b", "x", "y"}
ColumnChoices == SeqsUpTo(ReqNames, MaxReq)

\* A table create_plot is applied to: the time column x of timestamps and
\* NaT, and two numeric columns.
PlotTable(x) ==
  [cols |-> <<Column("t", "datetime", x),
              Column("a", "number", [i \in 1..Len(x) |-> NumCell]),
              Column("b", "number", [i \in 1..Len(x) |-> Null])>>,
   nrows |-> Len(x), index |-> "range"]

NoDf == [cols |-> <<>>, nrows |-> 0, index |-> "range"]
NoArgs == [df |-> NoDf, time_col |-> NoneStr, value_cols |-> <<>>]

\* The file is one of OtherFiles, or a .csv or .xlsx file of at most maxc
\* columns and maxr rows.  A table without date cells loads alike from
\* either format unless it has a single column (line 64), so the .xlsx files
\* of several columns are drawn among those with a date column.
ChooseFile(maxc, maxr) ==
  \/ \E sfx \in {".csv", ".xlsx"}, n \in 1..maxc, r \in 0..maxr,
        first \in FirstHeaders :
       \E sh \in [1..n -> LoadedShapes(r, sfx)] :
         /\ sfx = ".xlsx" => n = 1 \/ \E i \in 1..n : sh[i].dtype = "datetime"
         /\ file = File(TRUE, sfx, Table(sh, r, first))
  \/ file \in OtherFiles

NoInvocation ==
  /\ file = File(FALSE, "", NoDf)
  /\ columns = <<>>
  /\ output = NoneStr
  /\ title = NoneStr

Blank ==
  /\ df = NoDf
  /\ time_col = NoneStr
  /\ value_cols = <<>>
  /\ err = NoError
  /\ fig = NoFig
  /\ stderr = <<>>
  /\ exit_code = -1

(* --------------------- detect_time_column, applied -------------------- *)
InitDetect ==
  /\ pc = "call"
  /\ \E n \in 1..MaxCols, r \in 0..MaxRows, first \in FirstHeaders,
        ix \in {"range", "datetime"} :
       \E sh \in [1..n -> LoadedShapes(r, ".xlsx")] :
         args = [NoArgs EXCEPT !.df = [Table(sh, r, first) EXCEPT !.index = ix]]
  /\ NoInvocation
  /\ Blank

Detect ==
  /\ pc = "call"
  /\ pc' = "done"
  /\ time_col' = detect_time_column(args.df)
  /\ UNCHANGED <<file, columns, output, title, args, df, value_cols, err, fig,
                 stderr, exit_code>>

SpecDetect == InitDetect /\ [][Detect]_vars

(* ------------------------ prepare_data, applied ----------------------- *)
\* Calls without explicit columns.
InitPrepare ==
  /\ pc = "call"
  /\ ChooseFile(MaxCols, MaxRows)
  /\ columns = <<>>
  /\ output = NoneStr
  /\ title = NoneStr
  /\ args = NoArgs
  /\ Blank

Prepare ==
  /\ pc = "call"
  /\ \E r \in {prepare_data(file, columns)} :
         /\ pc' = IF r.ok THEN "returned" ELSE "raised"
         /\ df' = r.df
         /\ time_col' = r.time_col
         /\ value_cols' = r.value_cols
         /\ err' = r.err
  /\ UNCHANGED <<file, columns, output, title, args, fig, stderr, exit_code>>

SpecPrepare == InitPrepare /\ [][Prepare]_vars

\* Calls with explicit columns.
InitColumns ==
  /\ pc = "call"
  /\ ChooseFile(ReqCols, ReqRows)
  /\ columns \in ColumnChoices \ {<<>>}
  /\ output = NoneStr
  /\ title = NoneStr
  /\ args = NoArgs
  /\ Blank

SpecColumns == InitColumns /\ [][Prepare]_vars

(* ------------------------- create_plot, applied ----------------------- *)
InitPlot ==
  /\ pc = "call"
  /\ \E r \in 0..MaxRows, k \in 0..MaxSeries :
       \E x \in [1..r -> {TsCell, Null}], vcs \in [1..k -> {"a", "b"}] :
         args = [df |-> PlotTable(x), time_col |-> "t", value_cols |-> vcs]
  /\ NoInvocation
  /\ Blank

Plot ==
  /\ pc = "call"
  /\ \E r \in {create_plot(args.df, args.time_col, args.value_cols)} :
         /\ pc' = IF r.ok THEN "returned" ELSE "raised"
         /\ df' = r.df
         /\ fig' = r.fig
  /\ UNCHANGED <<file, columns, output, title, args, time_col, value_cols, err,
                 stderr, exit_code>>

SpecPlot == InitPlot /\ [][Plot]_vars

(* -------------------------------- main -------------------------------- *)
\* str(e) of the exception main catches.
Message(e) == <<e.kind>> \o e.names

\* click.echo(f"Error: {str(e)}", err=True)
ErrorLine(e) == <<"Error: ">> \o Message(e)

\* What click prints when the FILE argument names no existing path.
UsageError == <<"Usage: ", "Error: ", "Invalid value for 'FILE'">>

Init ==
  /\ pc = "cli"
  /\ ChooseFile(ReqCols, ReqRows)
  /\ columns \in ColumnChoices
  /\ output \in {NoneStr, "out.html"}
  /\ title \in {NoneStr, "My title"}
  /\ args = NoArgs
  /\ Blank

\* click.Path(exists=True) on the FILE argument (line 167): click checks the
\* path before main's body runs, and ends the process with status 2.
ClickParse ==
  /\ pc = "cli"
  /\ IF file.exists
     THEN /\ pc' = "main"
          /\ UNCHANGED <<stderr, exit_code>>
     ELSE /\ pc' = "exit"
          /\ stderr' = UsageError
          /\ exit_code' = 2
  /\ UNCHANGED <<file, columns, output, title, args, df, time_col, value_cols,
                 err, fig>>

\* Lines 186-190, and the handler of lines 204-206 when prepare_data raises.
MainPrepare ==
  /\ pc = "main"
  /\ \E r \in {prepare_data(file, columns)} :
         /\ df' = r.df
         /\ time_col' = r.time_col
         /\ value_cols' = r.value_cols
         /\ err' = r.err
         /\ IF r.ok
            THEN /\ pc' = "prepared"
                 /\ UNCHANGED <<stderr, exit_code>>
            ELSE /\ pc' = "exit"
                 /\ stderr' = ErrorLine(r.err)
                 /\ exit_code' = 1
  /\ UNCHANGED <<file, columns, output, title, args, fig>>

\* Lines 192-195, and the handler when create_plot raises.
MainPlot ==
  /\ pc = "prepared"
  /\ \E r \in {create_plot(df, time_col, value_cols)} :
         /\ df' = r.df
         /\ IF r.ok
            THEN /\ pc' = "plotted"
                 /\ fig' = IF title # NoneStr
                           THEN [r.fig EXCEPT !.title = title]
                           ELSE r.fig
                 /\ UNCHANGED <<err, stderr, exit_code>>
            ELSE /\ pc' = "exit"
                 /\ fig' = r.fig
                 /\ err' = Error(r.exc, <<>>)
                 /\ stderr' = ErrorLine(Error(r.exc, <<>>))
                 /\ exit_code' = 1
  /\ UNCHANGED <<file, columns, output, title, args, time_col, value_cols>>

\* Lines 197-202: the file is written or the browser opened; either can fail
\* (an unwritable path, no browser), and the handler then reports it.
MainOutput ==
  /\ pc = "plotted"
  /\ pc' = "exit"
  /\ \E io_ok \in BOOLEAN :
       IF io_ok
       THEN /\ exit_code' = 0
            /\ UNCHANGED <<err, stderr>>
       ELSE /\ exit_code' = 1
            /\ err' = Error("OSError", <<>>)
            /\ stderr' = ErrorLine(Error("OSError", <<>>))
  /\ UNCHANGED <<file, columns, output, title, args, df, time_col, value_cols,
                 fig>>

Next == ClickParse \/ MainPrepare \/ MainPlot \/ MainOutput

Spec == Init /\ [][Next]_vars

(* ============================== the claims ============================ *)
Min(S) == CHOOSE i \in S : \A j \in S : i <= j

AllValuesParse(c) == \A i \in 1..Len(c.vals) : Convertible(c.vals[i])

TypedCols(t) == {i \in 1..Len(t.cols) : t.cols[i].dtype = "datetime"}
ParsingCols(t) == {i \in 1..Len(t.cols) : AllValuesParse(t.cols[i])}

\* C1: detect_time_column returns the leftmost column already typed as a
\* timestamp when there is one; otherwise the leftmost column all of whose
\* values parse as timestamps, so never a column with a value that fails to
\* parse; and None when no column qualifies.
C1_DetectLeftmost ==
  pc = "done" =>
    LET t == args.df
    IN  IF TypedCols(t) # {} THEN time_col = t.cols[Min(TypedCols(t))].name
        ELSE IF ParsingCols(t) # {}
        THEN /\ time_col = t.cols[Min(ParsingCols(t))].name
             /\ AllValuesParse(GetColumn(t, time_col))
        ELSE time_col = NoneStr

\* C1's case: no typed column, a first column whose first value parses and
\* whose second does not, and the second column chosen.
C1_Witness ==
  /\ pc = "done"
  /\ TypedCols(args.df) = {}
  /\ Len(args.df.cols) >= 2
  /\ args.df.cols[1].vals = <<DateCell, TextCell>>
  /\ time_col = args.df.cols[2].name

\* C2: when prepare_data returns, the time column it names is a column of
\* the table it returns (pruning never removes it).
C2_TimeColumnKept == pc = "returned" => HasColumn(df, time_col)

\* C3: when prepare_data returns, the value columns do not contain the time
\* column, whether detected or given by the caller.
C3_ValueColsDisjoint ==
  pc = "returned" => \A i \in 1..Len(value_cols) : value_cols[i] # time_col

\* C4: when prepare_data returns, every value column names a numeric column
\* of the returned table, whether detected or given by the caller.
C4_ValueColsNumeric ==
  pc = "returned" =>
    \A i \in 1..Len(value_cols) :
      /\ HasColumn(df, value_cols[i])
      /\ IsNumericDtype(GetColumn(df, value_cols[i]))

\* The steps before the value columns are resolved succeeded.
EarlierStepsDone ==
  /\ pc \in {"returned", "raised"}
  /\ err.kind \notin {"FileNotFound", "UnsupportedFormat", "NoTimeColumn",
                      "TimeParseError"}

\* The names of the table's columns when the caller's names are validated
\* (line 86): the loaded headers (or "value", after the headerless re-read),
\* the synthesized "datetime", less the columns that hold only nulls.
NamesAtValidation ==
  LET fb == FallBack(Detected(file.table, Lower(file.suffix)))
      conv == ToDatetime(GetColumn(fb.df, fb.time_col))
      t == DropNa(SetColumn(fb.df, fb.time_col, "datetime", conv.vals))
  IN  {t.cols[i].name : i \in 1..Len(t.cols)}

\* C5: with explicit column names and the earlier steps done: if a
\* requested name is no column of the table, preparation fails with
\* MissingColumns listing every absent requested name and no present one;
\* otherwise the value columns are the caller's list in the caller's order.
C5_ExplicitColumns ==
  (columns # <<>> /\ EarlierStepsDone) =>
    \E names \in {NamesAtValidation} :
      IF \E i \in 1..Len(columns) : columns[i] \notin names
      THEN /\ pc = "raised"
           /\ err.kind = "MissingColumns"
           /\ \A i \in 1..Len(columns) :
                columns[i] \notin names
                  <=> \E j \in 1..Len(err.names) : err.names[j] = columns[i]
      ELSE /\ pc = "returned"
           /\ value_cols = columns

\* C5's case: two names requested, neither a column, both reported.
C5_Witness ==
  /\ pc = "raised"
  /\ err.kind = "MissingColumns"
  /\ Len(columns) = 2
  /\ err.names = columns
  /\ columns[1] # columns[2]

\* A CSV of one numeric column that holds a number, no names given.
SingleNumericCsv ==
  /\ file.exists
  /\ Lower(file.suffix) = ".csv"
  /\ Len(file.table.cols) = 1
  /\ file.table.cols[1].dtype = "number"
  /\ ~AllNull(file.table.cols[1])
  /\ columns = <<>>

\* C6: for a CSV of one numeric column and N rows, prepare_data returns with
\* a synthesized time column whose row i (0-based) is 2027-01-01T00:00:00
\* plus i hours, and the one numeric column as the only value column.
C6_SynthesizedHours ==
  (SingleNumericCsv /\ pc \in {"returned", "raised"}) =>
    /\ pc = "returned"
    /\ HasColumn(df, time_col)
    /\ GetColumn(df, time_col).vals = [i \in 1..file.table.nrows |-> Val("ts", i - 1)]
    /\ value_cols = <<file.table.cols[1].name>>

\* A CSV whose leftmost column holds timestamps, no names given.
LeftmostTimestampCsv ==
  /\ file.exists
  /\ Lower(file.suffix) = ".csv"
  /\ columns = <<>>
  /\ file.table.nrows >= 1
  /\ \A i \in 1..file.table.nrows : file.table.cols[1].vals[i].k \in {"date", "ts"}

OtherNumeric(i) == i >= 2 /\ IsNumericDtype(file.table.cols[i])

\* The other numeric columns that are not all null, in file order.
ExpectedValueCols ==
  LET keep == SelectSeq(
                [i \in 1..Len(file.table.cols) |-> i],
                LAMBDA i : OtherNumeric(i) /\ ~AllNull(file.table.cols[i]))
  IN  [k \in 1..Len(keep) |-> file.table.cols[keep[k]].name]

C7_Outcome ==
  /\ pc = "returned"
  /\ time_col = file.table.cols[1].name
  /\ value_cols = ExpectedValueCols

\* C7 as stated: for every CSV whose leftmost column is timestamp-typed and
\* which has at least one other numeric column, prepare_data selects the
\* leftmost column as the time column and returns exactly the other numeric
\* columns that are not all null, in file order.
C7_AsStated ==
  (/\ pc \in {"returned", "raised"}
   /\ LeftmostTimestampCsv
   /\ \E i \in 1..Len(file.table.cols) : OtherNumeric(i))
    => C7_Outcome

\* C7 as amended: the same, for every such CSV with at least one other
\* numeric column that is not entirely null.
C7_LeftmostTimeColumn ==
  (/\ pc \in {"returned", "raised"}
   /\ LeftmostTimestampCsv
   /\ \E i \in 1..Len(file.table.cols) :
        OtherNumeric(i) /\ ~AllNull(file.table.cols[i]))
    => C7_Outcome

\* C7's case: dates, then a text column, left out by its type, then a
\* numeric column with a gap, the only value column.
C7_Witness ==
  /\ pc = "returned"
  /\ LeftmostTimestampCsv
  /\ Len(file.table.cols) = 3
  /\ file.table.cols[2].dtype = "object"
  /\ file.table.cols[3].vals = <<NumCell, Null>>
  /\ time_col = file.table.cols[1].name
  /\ value_cols = <<file.table.cols[3].name>>

\* The run failed: the path does not exist, or an exception was raised.
RunFailed == pc = "exit" /\ (~file.exists \/ err # NoError)

\* C8: any failure at any stage ends the run with 'Error: <message>' on
\* standard error and exit code 1, and a failure of the preparation leaves
\* no chart.
C8_FailureExitsOne ==
  RunFailed =>
    /\ exit_code = 1
    /\ stderr # <<>>
    /\ stderr[1] = "Error: "
    /\ (~file.exists \/ err.kind \in {"UnsupportedFormat", "NoTimeColumn",
          "TimeParseError", "MissingColumns", "NoNumericColumns"}
          => fig = NoFig)

\* C9: the chart has one series per value column, the i-th named after the
\* i-th value column and colored PALETTE_COLORS[i mod 5], so the series at
\* positions i and i+5 have the same color.
C9_SeriesColors ==
  pc = "returned" =>
    LET vcs == args.value_cols
    IN  /\ Len(fig.traces) = Len(vcs)
        /\ \A i \in 1..Len(vcs) :
             /\ fig.traces[i].name = vcs[i]
             /\ fig.traces[i].color = PALETTE_COLORS[((i - 1) % 5) + 1]
        /\ \A i \in 1..Len(fig.traces) :
             i + 5 <= Len(fig.traces) =>
               fig.traces[i + 5].color = fig.traces[i].color

\* C9's case: a chart of six series or more, the palette used twice.
C9_Witness ==
  /\ pc = "returned"
  /\ Len(fig.traces) >= 6
  /\ fig.traces[6].color = fig.traces[1].color
  /\ fig.traces[6].name # fig.traces[1].name

\* C10: create_plot leaves the table it is given as it was: the same
\* columns, the same values.
C10_TableUnchanged == pc = "returned" => df = args.df

====
